---- MODULE Spec2Model ----
(***************************************************************************)
(* Scheduling-and-synchronization engine of the content studio:            *)
(* ScheduledPostRepository (scheduled_post.py) and SchedulerService        *)
(* (scheduler_service.py) against the Late API client (later_dev/client.py)*)
(* Every service method is one action; the reply of the external service   *)
(* to each request is an input of the action.                              *)
(***************************************************************************)
EXTENDS Integers, Sequences, FiniteSets, TLC

\* ---- bounds of the model ------------------------------------------------
MaxPosts == 2
MaxTime == 2
MaxBatch == 2
MaxSteps == 3
MaxConcSteps == 5
MaxAnalytics == 3

\* ---- values ---------------------------------------------------------------
\* Python None: 0 in integer-valued fields, "None" in string-valued fields
None == 0
NoneStr == "None"

DRAFT == "draft"
PENDING_SYNC == "pending_sync"
SCHEDULED == "scheduled"
PUBLISHING == "publishing"
PUBLISHED == "published"
FAILED == "failed"
CANCELLED == "cancelled"

ScheduleStatus ==
    {DRAFT, PENDING_SYNC, SCHEDULED, PUBLISHING, PUBLISHED, FAILED, CANCELLED}

LatePostStatus == {"pending", "processing", "published", "failed", "partial"}

SINGLE_PLATFORM == "single_platform"
MULTI_PLATFORM == "multi_platform"

\* LatePost.status is a free string: the replies of the model report a
\* status that LatePostStatus lists and one that it does not list
ReportedStatus == {"pending", "scheduled"}

\* LateApiError.message as the service's error body gives it; "" when the
\* body carries an empty "error" field
Messages == {"", "late api error"}

\* the connected accounts and the content items of the model
Accounts == {1, 2}
Contents == {1, 2}
\* an account id that no ConnectedAccount row has
UnknownAccount == 3
\* the account ids a request can carry
AccountIds == Accounts \cup {UnknownAccount}
Times == 1..MaxTime
\* the scheduled_for a post is created with; reschedule draws from Times
ScheduleTimes == {1}
\* datetime.now(UTC) when a row is stamped
Now == 1
\* the timezone argument: the default of schedule_single / schedule_multi, and
\* what reschedule may be given (None, or a zone)
DefaultTimezone == "UTC"
RescheduleTimezones == {NoneStr, "America/New_York"}
PostIds == 1..MaxPosts

\* ConnectedAccount.platform of the accounts of the model
PlatformOf(a) == IF a = 1 THEN "tiktok" ELSE "youtube"

\* Python truthiness of a str | None argument
Truthy(s) == s # NoneStr /\ s # ""

VARIABLES
    posts,            \* scheduled_posts rows, in created_at order
    account_active,   \* ConnectedAccount.is_active
    content_deleted,  \* ContentLibraryItem.is_deleted
    late_seq,         \* number of posts the external service has created
    batch_seq,        \* number of batch ids generated
    last,             \* what the last service call did
    steps,            \* number of calls made so far
    inflight,         \* the pushes that are waiting on an await, per worker
    analytics         \* post_analytics rows, in insertion order

vars ==
    <<posts, account_active, content_deleted, late_seq, batch_seq, last, steps,
      inflight, analytics>>

\* ---- the observation of a call ------------------------------------------
NoCall ==
    [op |-> "init", post |-> None, args |-> <<>>, raised |-> "none",
     calls |-> <<>>, trans |-> <<>>, selected |-> <<>>, synced |-> 0,
     failed |-> 0]

\* the working state of a running service call
Ctx(op, pid, args) ==
    [posts |-> posts, late_seq |-> late_seq, op |-> op, post |-> pid,
     args |-> args, raised |-> "none", calls |-> <<>>, trans |-> <<>>,
     selected |-> <<>>, synced |-> 0, failed |-> 0]

Observe(ctx) ==
    [op |-> ctx.op, post |-> ctx.post, args |-> ctx.args,
     raised |-> ctx.raised,
     calls |-> ctx.calls, trans |-> ctx.trans, selected |-> ctx.selected,
     synced |-> ctx.synced, failed |-> ctx.failed]

Raise(ctx, exc) == [ctx EXCEPT !.raised = exc]

\* session.commit(): the row becomes the stored row; the status it had before
\* and the status it has now are recorded
Commit(ctx, pid, row, from) ==
    [ctx EXCEPT
        !.posts = IF pid \in DOMAIN ctx.posts
                  THEN [ctx.posts EXCEPT ![pid] = row]
                  ELSE Append(ctx.posts, row),
        !.trans = Append(@, [post |-> pid, from |-> from, to |-> row.status])]

\* a request sent to the external service
Call(ctx, kind, pid, late_id, publish, result) ==
    [ctx EXCEPT !.calls = Append(@,
        [kind |-> kind, post |-> pid, late_id |-> late_id,
         publish_now |-> publish, result |-> result])]

\* ConnectedAccountRepository.get_by_id: the row of the id, or None
get_by_id(account) == IF account \in Accounts THEN account ELSE None

\* ---- ScheduledPostRepository ----------------------------------------------
\* create that drops the batch id it is given
create_without_batch(content, account, platform, scheduled_for, timezone, mode, batch_id) ==
    [content_library_item_id |-> content,
     connected_account_id |-> account,
     platform |-> platform,
     scheduled_for |-> scheduled_for,
     timezone |-> timezone,
     status |-> DRAFT,
     late_status |-> NoneStr,
     schedule_mode |-> mode,
     batch_id |-> None,
     late_post_id |-> None,
     platform_post_id |-> None,
     platform_post_url |-> None,
     published_at |-> None,
     failed_at |-> None,
     error_message |-> NoneStr,
     retry_count |-> 0]

create(content, account, platform, scheduled_for, timezone, mode, batch_id) ==
    [content_library_item_id |-> content,
     connected_account_id |-> account,
     platform |-> platform,
     scheduled_for |-> scheduled_for,
     timezone |-> timezone,
     status |-> DRAFT,
     late_status |-> NoneStr,
     schedule_mode |-> mode,
     batch_id |-> batch_id,
     late_post_id |-> None,
     platform_post_id |-> None,
     platform_post_url |-> None,
     published_at |-> None,
     failed_at |-> None,
     error_message |-> NoneStr,
     retry_count |-> 0]

\* update_status without the retry_count increment on FAILED
update_status_no_retry(post, status, late_post_id, late_status, platform_post_id, platform_post_url, error_message, now) ==
    LET p1 == [post EXCEPT !.status = status]
        p2 == IF late_post_id # None
              THEN [p1 EXCEPT !.late_post_id = late_post_id] ELSE p1
        p3 == IF late_status # NoneStr
              THEN [p2 EXCEPT !.late_status = late_status] ELSE p2
        p4 == IF platform_post_id # None
              THEN [p3 EXCEPT !.platform_post_id = platform_post_id] ELSE p3
        p5 == IF platform_post_url # None
              THEN [p4 EXCEPT !.platform_post_url = platform_post_url] ELSE p4
        p6 == IF status = PUBLISHED
              THEN [p5 EXCEPT !.published_at = now] ELSE p5
    IN  IF status = FAILED
        THEN [p6 EXCEPT !.failed_at = now,
                        !.error_message = IF Truthy(error_message)
                                          THEN error_message ELSE @]
        ELSE p6

update_status(post, status, late_post_id, late_status, platform_post_id, platform_post_url, error_message, now) ==
    LET p1 == [post EXCEPT !.status = status]
        p2 == IF late_post_id # None
              THEN [p1 EXCEPT !.late_post_id = late_post_id] ELSE p1
        p3 == IF late_status # NoneStr
              THEN [p2 EXCEPT !.late_status = late_status] ELSE p2
        p4 == IF platform_post_id # None
              THEN [p3 EXCEPT !.platform_post_id = platform_post_id] ELSE p3
        p5 == IF platform_post_url # None
              THEN [p4 EXCEPT !.platform_post_url = platform_post_url] ELSE p4
        p6 == IF status = PUBLISHED
              THEN [p5 EXCEPT !.published_at = now] ELSE p5
        p7 == IF status = FAILED
              THEN [p6 EXCEPT !.failed_at = now,
                              !.retry_count = @ + 1,
                              !.error_message = IF Truthy(error_message)
                                                THEN error_message ELSE @]
              ELSE p6
    IN  p7

\* reschedule that puts every post back to PENDING_SYNC
repo_reschedule_requeue(post, scheduled_for, timezone) ==
    LET p1 == [post EXCEPT !.scheduled_for = scheduled_for]
        p2 == IF Truthy(timezone) THEN [p1 EXCEPT !.timezone = timezone] ELSE p1
    IN  [p2 EXCEPT !.status = PENDING_SYNC]

repo_reschedule(post, scheduled_for, timezone) ==
    LET p1 == [post EXCEPT !.scheduled_for = scheduled_for]
        p2 == IF Truthy(timezone) THEN [p1 EXCEPT !.timezone = timezone] ELSE p1
    IN  IF p2.status = SCHEDULED THEN [p2 EXCEPT !.status = PENDING_SYNC] ELSE p2

repo_cancel(post) == [post EXCEPT !.status = CANCELLED]

\* the ids of the posts in PENDING_SYNC, by created_at ascending
RECURSIVE PendingFrom(_, _)
PendingFrom(ps, i) ==
    IF i > Len(ps) THEN <<>>
    ELSE IF ps[i].status = PENDING_SYNC
         THEN <<i>> \o PendingFrom(ps, i + 1)
         ELSE PendingFrom(ps, i + 1)

\* a selection that also retries the FAILED posts
RECURSIVE PendingOrFailedFrom(_, _)
PendingOrFailedFrom(ps, i) ==
    IF i > Len(ps) THEN <<>>
    ELSE IF ps[i].status \in {PENDING_SYNC, FAILED}
         THEN <<i>> \o PendingOrFailedFrom(ps, i + 1)
         ELSE PendingOrFailedFrom(ps, i + 1)

get_pending_sync_with_failed(ps) == PendingOrFailedFrom(ps, 1)

\* a selection that also takes the DRAFT posts
RECURSIVE PendingOrDraftFrom(_, _)
PendingOrDraftFrom(ps, i) ==
    IF i > Len(ps) THEN <<>>
    ELSE IF ps[i].status \in {PENDING_SYNC, DRAFT}
         THEN <<i>> \o PendingOrDraftFrom(ps, i + 1)
         ELSE PendingOrDraftFrom(ps, i + 1)

get_pending_sync_with_draft(ps) == PendingOrDraftFrom(ps, 1)

get_pending_sync(ps) == PendingFrom(ps, 1)

\* ---- replies of the external service --------------------------------------
\* create_post: accepted (LatePost returned), refused (LateApiError), or an
\* error reply whose body is not JSON (response.json() raises a ValueError)
Reply(kind, status, ppid, ppurl, msg) ==
    [kind |-> kind, status |-> status, platform_post_id |-> ppid,
     platform_post_url |-> ppurl, msg |-> msg]

PushReplies ==
    {Reply("ok", s, None, None, "") : s \in ReportedStatus}
    \cup {Reply("late_error", "", None, None, m) : m \in Messages}
    \cup {Reply("decode_error", "", None, None, "")}

PublishReplies ==
    {Reply("ok", s, i, i, "") : s \in ReportedStatus, i \in {None, 1}}
    \cup {Reply("late_error", "", None, None, m) : m \in Messages}
    \cup {Reply("decode_error", "", None, None, "")}

\* update_post / delete_post
PlainReplies == {"ok", "late_error", "decode_error"}

\* ---- SchedulerService -----------------------------------------------------
\* _sync_to_late that does not store the id the external service returned
_sync_to_late_drop_id(ctx, pid, reply, now) ==
    LET post == ctx.posts[pid] IN
    IF content_deleted[post.content_library_item_id]
    THEN Raise(ctx, "ValueError")
    ELSE IF reply.kind = "ok"
    THEN LET id == ctx.late_seq + 1
             c1 == [Call(ctx, "create", pid, id, FALSE, "ok")
                        EXCEPT !.late_seq = id]
         IN  IF reply.status \notin LatePostStatus
             THEN Raise(c1, "ValueError")
             ELSE Commit(c1, pid,
                         update_status(post, SCHEDULED, None, reply.status,
                                       None, None, NoneStr, now),
                         post.status)
    ELSE IF reply.kind = "late_error"
    THEN Raise(Commit(Call(ctx, "create", pid, None, FALSE, "late_error"), pid,
                      update_status(post, FAILED, None, NoneStr, None, None,
                                    reply.msg, now),
                      post.status),
               "LateApiError")
    ELSE Raise(Call(ctx, "create", pid, None, FALSE, "decode_error"),
               "ValueError")

\* _sync_to_late that marks the post it pushed as PUBLISHED
_sync_to_late_publishes(ctx, pid, reply, now) ==
    LET post == ctx.posts[pid] IN
    IF content_deleted[post.content_library_item_id]
    THEN Raise(ctx, "ValueError")
    ELSE IF reply.kind = "ok"
    THEN LET id == ctx.late_seq + 1
             c1 == [Call(ctx, "create", pid, id, FALSE, "ok")
                        EXCEPT !.late_seq = id]
         IN  IF reply.status \notin LatePostStatus
             THEN Raise(c1, "ValueError")
             ELSE Commit(c1, pid,
                         update_status(post, PUBLISHED, id, reply.status,
                                       None, None, NoneStr, now),
                         post.status)
    ELSE IF reply.kind = "late_error"
    THEN Raise(Commit(Call(ctx, "create", pid, None, FALSE, "late_error"), pid,
                      update_status(post, FAILED, None, NoneStr, None, None,
                                    reply.msg, now),
                      post.status),
               "LateApiError")
    ELSE Raise(Call(ctx, "create", pid, None, FALSE, "decode_error"),
               "ValueError")

_sync_to_late(ctx, pid, reply, now) ==
    LET post == ctx.posts[pid] IN
    IF content_deleted[post.content_library_item_id]
    THEN Raise(ctx, "ValueError")
    ELSE IF reply.kind = "ok"
    THEN LET id == ctx.late_seq + 1
             c1 == [Call(ctx, "create", pid, id, FALSE, "ok")
                        EXCEPT !.late_seq = id]
         IN  IF reply.status \notin LatePostStatus
             THEN Raise(c1, "ValueError")
             ELSE Commit(c1, pid,
                         update_status(post, SCHEDULED, id, reply.status,
                                       None, None, NoneStr, now),
                         post.status)
    ELSE IF reply.kind = "late_error"
    THEN Raise(Commit(Call(ctx, "create", pid, None, FALSE, "late_error"), pid,
                      update_status(post, FAILED, None, NoneStr, None, None,
                                    reply.msg, now),
                      post.status),
               "LateApiError")
    ELSE Raise(Call(ctx, "create", pid, None, FALSE, "decode_error"),
               "ValueError")

\* schedule_single without the checks of the account
schedule_single_unchecked(content, account, scheduled_for, timezone, sync_immediately, reply, now) ==
    LET ctx == Ctx("schedule_single", Len(posts) + 1, <<content, account>>)
        pid == Len(posts) + 1
    IN  IF content_deleted[content]
        THEN Raise(ctx, "ValueError")
        ELSE LET status == IF sync_immediately THEN PENDING_SYNC ELSE DRAFT
                 row == update_status(
                            create(content, account, PlatformOf(account),
                                   scheduled_for, timezone, SINGLE_PLATFORM,
                                   None),
                            status, None, NoneStr, None, None, NoneStr, now)
                 c1 == Commit(ctx, pid, row, "none")
             IN  IF sync_immediately
                 THEN _sync_to_late(c1, pid, reply, now)
                 ELSE c1

schedule_single(content, account, scheduled_for, timezone, sync_immediately, reply, now) ==
    LET ctx == Ctx("schedule_single", Len(posts) + 1, <<content, account>>)
        pid == Len(posts) + 1
    IN  IF get_by_id(account) = None
        THEN Raise(ctx, "ValueError")
        ELSE IF ~account_active[account]
        THEN Raise(ctx, "ValueError")
        ELSE IF content_deleted[content]
        THEN Raise(ctx, "ValueError")
        ELSE LET status == IF sync_immediately THEN PENDING_SYNC ELSE DRAFT
                 row == update_status(
                            create(content, account, PlatformOf(account),
                                   scheduled_for, timezone, SINGLE_PLATFORM,
                                   None),
                            status, None, NoneStr, None, None, NoneStr, now)
                 c1 == Commit(ctx, pid, row, "none")
             IN  IF sync_immediately
                 THEN _sync_to_late(c1, pid, reply, now)
                 ELSE c1

\* a teardown that rolls back the rows that were flushed but not committed
request_teardown_rollback(flushed) == SubSeq(flushed, 1, Len(posts))

\* what the request's session does with rows that were flushed but not
\* committed when the service call raised
request_teardown(flushed) == flushed

\* the creation loop of schedule_multi run over the list from its end
RECURSIVE CreateBatchReversed(_, _, _, _, _, _, _)
CreateBatchReversed(ctx, content, timezone, schedules, i, batch_id, status) ==
    IF i > Len(schedules) THEN ctx
    ELSE LET account ==
                 schedules[Len(schedules) + 1 - i].connected_account_id
         IN
         IF get_by_id(account) = None
         THEN Raise(ctx, "ValueError")
         ELSE IF ~account_active[account]
         THEN Raise(ctx, "ValueError")
         ELSE CreateBatchReversed(
                [ctx EXCEPT !.posts = Append(@,
                    update_status(
                        create(content, account, PlatformOf(account),
                               schedules[i].scheduled_for, timezone,
                               MULTI_PLATFORM, batch_id),
                        status, None, NoneStr, None, None, NoneStr, Now))],
                content, timezone, schedules, i + 1, batch_id, status)

\* the loop of schedule_multi that validates each account and creates its row
RECURSIVE CreateBatch(_, _, _, _, _, _, _)
CreateBatch(ctx, content, timezone, schedules, i, batch_id, status) ==
    IF i > Len(schedules) THEN ctx
    ELSE LET account == schedules[i].connected_account_id IN
         IF get_by_id(account) = None
         THEN Raise(ctx, "ValueError")
         ELSE IF ~account_active[account]
         THEN Raise(ctx, "ValueError")
         ELSE CreateBatch(
                [ctx EXCEPT !.posts = Append(@,
                    update_status(
                        create(content, account, PlatformOf(account),
                               schedules[i].scheduled_for, timezone,
                               MULTI_PLATFORM, batch_id),
                        status, None, NoneStr, None, None, NoneStr, Now))],
                content, timezone, schedules, i + 1, batch_id, status)

\* session.commit() of the flushed rows pids[i..]
RECURSIVE CommitCreated(_, _, _)
CommitCreated(ctx, pids, i) ==
    IF i > Len(pids) THEN ctx
    ELSE CommitCreated(Commit(ctx, pids[i], ctx.posts[pids[i]], "none"),
                       pids, i + 1)

\* the push loop of schedule_multi that goes on after a push has raised
RECURSIVE PushEachAll(_, _, _, _)
PushEachAll(ctx, pids, i, replies) ==
    IF i > Len(pids) THEN ctx
    ELSE PushEachAll(_sync_to_late(ctx, pids[i], replies[i], Now),
                     pids, i + 1, replies)

\* for post in posts: await _sync_to_late(session, post)
RECURSIVE PushEach(_, _, _, _)
PushEach(ctx, pids, i, replies) ==
    IF i > Len(pids) \/ ctx.raised # "none" THEN ctx
    ELSE PushEach(_sync_to_late(ctx, pids[i], replies[i], Now),
                  pids, i + 1, replies)

\* selected holds the posts the call returns, in the order of the response
schedule_multi(content, schedules, timezone, sync_immediately, replies) ==
    LET ctx == Ctx("schedule_multi", None,
                   <<content,
                     [k \in DOMAIN schedules |->
                        schedules[k].connected_account_id]>>)
        first == Len(posts) + 1
    IN  IF content_deleted[content]
        THEN Raise(ctx, "ValueError")
        ELSE LET batch_id == batch_seq + 1
                 status == IF sync_immediately THEN PENDING_SYNC ELSE DRAFT
                 c1 == CreateBatch(ctx, content, timezone, schedules, 1,
                                   batch_id, status)
                 pids == [k \in 1..(Len(c1.posts) - Len(posts)) |->
                            Len(posts) + k]
                 c2 == CommitCreated(c1, pids, 1)
                 c3 == IF sync_immediately
                       THEN PushEach(c2, pids, 1, replies)
                       ELSE c2
             IN  IF c1.raised # "none"
                 THEN [c1 EXCEPT !.posts = request_teardown(c1.posts)]
                 ELSE IF c3.raised # "none" THEN c3
                 ELSE [c3 EXCEPT !.selected = pids]

\* _update_late_schedule that leaves the post as reschedule left it
_update_late_schedule_no_status(ctx, pid, reply) ==
    LET post == ctx.posts[pid] IN
    IF post.late_post_id = None THEN ctx
    ELSE IF reply = "ok"
    THEN Call(ctx, "update", pid, post.late_post_id, FALSE, "ok")
    ELSE Raise(Call(ctx, "update", pid, post.late_post_id, FALSE, reply),
               IF reply = "late_error" THEN "LateApiError" ELSE "ValueError")

_update_late_schedule(ctx, pid, reply) ==
    LET post == ctx.posts[pid] IN
    IF post.late_post_id = None THEN ctx
    ELSE IF reply = "ok"
    THEN Commit(Call(ctx, "update", pid, post.late_post_id, FALSE, "ok"), pid,
                update_status(post, SCHEDULED, None, NoneStr, None, None,
                              NoneStr, Now),
                post.status)
    ELSE Raise(Call(ctx, "update", pid, post.late_post_id, FALSE, reply),
               IF reply = "late_error" THEN "LateApiError" ELSE "ValueError")

\* reschedule without the check of the terminal statuses
reschedule_no_terminal_check(pid, scheduled_for, timezone, reply) ==
    LET ctx == Ctx("reschedule", pid, <<scheduled_for, timezone>>) IN
    IF pid \notin DOMAIN posts THEN Raise(ctx, "ValueError")
    ELSE LET c1 == Commit(ctx, pid,
                          repo_reschedule(posts[pid], scheduled_for, timezone),
                          posts[pid].status)
         IN  IF c1.posts[pid].late_post_id # None
             THEN _update_late_schedule(c1, pid, reply)
             ELSE c1

reschedule(pid, scheduled_for, timezone, reply) ==
    LET ctx == Ctx("reschedule", pid, <<scheduled_for, timezone>>) IN
    IF pid \notin DOMAIN posts THEN Raise(ctx, "ValueError")
    ELSE IF posts[pid].status \in {PUBLISHED, CANCELLED}
    THEN Raise(ctx, "ValueError")
    ELSE LET c1 == Commit(ctx, pid,
                          repo_reschedule(posts[pid], scheduled_for, timezone),
                          posts[pid].status)
         IN  IF c1.posts[pid].late_post_id # None
             THEN _update_late_schedule(c1, pid, reply)
             ELSE c1

_delete_from_late(ctx, pid, reply) ==
    LET post == ctx.posts[pid] IN
    IF post.late_post_id = None THEN ctx
    ELSE IF reply = "ok"
    THEN Call(ctx, "delete", pid, post.late_post_id, FALSE, "ok")
    ELSE Raise(Call(ctx, "delete", pid, post.late_post_id, FALSE, reply),
               IF reply = "late_error" THEN "LateApiError" ELSE "ValueError")

\* cancel that asks the external service to delete before it checks the status
cancel_delete_first(pid, reply) ==
    LET ctx == Ctx("cancel", pid, <<>>) IN
    IF pid \notin DOMAIN posts THEN Raise(ctx, "ValueError")
    ELSE LET c1 == IF posts[pid].late_post_id # None
                   THEN _delete_from_late(ctx, pid, reply)
                   ELSE ctx
         IN  IF posts[pid].status = PUBLISHED THEN Raise(c1, "ValueError")
             ELSE IF c1.raised # "none" THEN c1
             ELSE Commit(c1, pid, repo_cancel(posts[pid]), posts[pid].status)

cancel(pid, reply) ==
    LET ctx == Ctx("cancel", pid, <<>>) IN
    IF pid \notin DOMAIN posts THEN Raise(ctx, "ValueError")
    ELSE IF posts[pid].status = PUBLISHED THEN Raise(ctx, "ValueError")
    ELSE LET c1 == IF posts[pid].late_post_id # None
                   THEN _delete_from_late(ctx, pid, reply)
                   ELSE ctx
         IN  IF c1.raised # "none" THEN c1
             ELSE Commit(c1, pid, repo_cancel(posts[pid]), posts[pid].status)

\* _publish_via_late that does not store the id the external service returned
_publish_via_late_drop_id(ctx, pid, reply) ==
    LET post == ctx.posts[pid] IN
    IF content_deleted[post.content_library_item_id]
    THEN Raise(ctx, "ValueError")
    ELSE IF reply.kind = "ok"
    THEN LET id == ctx.late_seq + 1
             c1 == [Call(ctx, "create", pid, id, TRUE, "ok")
                        EXCEPT !.late_seq = id]
         IN  IF reply.status \notin LatePostStatus
             THEN Raise(c1, "ValueError")
             ELSE Commit(c1, pid,
                         update_status(post, PUBLISHED, None, reply.status,
                                       reply.platform_post_id,
                                       reply.platform_post_url, NoneStr, Now),
                         post.status)
    ELSE Raise(Call(ctx, "create", pid, None, TRUE, reply.kind),
               IF reply.kind = "late_error" THEN "LateApiError"
               ELSE "ValueError")

_publish_via_late(ctx, pid, reply) ==
    LET post == ctx.posts[pid] IN
    IF content_deleted[post.content_library_item_id]
    THEN Raise(ctx, "ValueError")
    ELSE IF reply.kind = "ok"
    THEN LET id == ctx.late_seq + 1
             c1 == [Call(ctx, "create", pid, id, TRUE, "ok")
                        EXCEPT !.late_seq = id]
         IN  IF reply.status \notin LatePostStatus
             THEN Raise(c1, "ValueError")
             ELSE Commit(c1, pid,
                         update_status(post, PUBLISHED, id, reply.status,
                                       reply.platform_post_id,
                                       reply.platform_post_url, NoneStr, Now),
                         post.status)
    ELSE Raise(Call(ctx, "create", pid, None, TRUE, reply.kind),
               IF reply.kind = "late_error" THEN "LateApiError"
               ELSE "ValueError")

publish_now(pid, reply) ==
    LET ctx == Ctx("publish_now", pid, <<>>) IN
    IF pid \notin DOMAIN posts THEN Raise(ctx, "ValueError")
    ELSE IF posts[pid].status = PUBLISHED THEN Raise(ctx, "ValueError")
    ELSE LET c1 == Commit(ctx, pid,
                          update_status(posts[pid], PUBLISHING, None, NoneStr,
                                        None, None, NoneStr, Now),
                          posts[pid].status)
             c2 == _publish_via_late(c1, pid, reply)
         IN  IF c2.raised = "LateApiError"
             THEN Commit(c2, pid,
                         update_status(c2.posts[pid], FAILED, None, NoneStr,
                                       None, None, reply.msg, Now),
                         c2.posts[pid].status)
             ELSE c2

\* the loop of sync_pending over the selected posts
RECURSIVE SyncEach(_, _, _)
SyncEach(ctx, i, replies) ==
    IF i > Len(ctx.selected) \/ ctx.raised # "none" THEN ctx
    ELSE LET r == _sync_to_late(ctx, ctx.selected[i], replies[i], Now) IN
         SyncEach(IF r.raised = "none"
                  THEN [r EXCEPT !.synced = @ + 1]
                  ELSE IF r.raised = "LateApiError"
                       THEN [r EXCEPT !.failed = @ + 1, !.raised = "none"]
                       ELSE r,
                  i + 1, replies)

sync_pending(replies) ==
    SyncEach([Ctx("sync_pending", None, <<>>) EXCEPT
                 !.selected = get_pending_sync(posts)],
             1, replies)

\* ---- routes: the answer to the caller ----------------------------------------
\* the HTTP status the schedule routes answer for what the service raised
status_code(raised) ==
    IF raised = "ValueError" THEN 400
    ELSE IF raised = "LateApiError" THEN 502
    ELSE 200

\* ---- actions ----------------------------------------------------------------
\* a run of the model makes at most MaxSteps calls
Step ==
    /\ steps < MaxSteps
    /\ steps' = steps + 1

\* the call's effect becomes the state
Finish(ctx) ==
    /\ Step
    /\ posts' = ctx.posts
    /\ late_seq' = ctx.late_seq
    /\ last' = Observe(ctx)
    /\ UNCHANGED <<inflight, analytics>>

ScheduleSingle ==
    \E c \in Contents, a \in AccountIds, t \in ScheduleTimes,
       sync \in BOOLEAN, reply \in PushReplies :
        /\ Len(posts) < MaxPosts
        /\ Finish(schedule_single(c, a, t, DefaultTimezone, sync, reply, Now))
        /\ UNCHANGED <<account_active, content_deleted, batch_seq>>

\* the account lists a caller passes to schedule_multi
AccountLists == UNION {[1..n -> AccountIds] : n \in 1..MaxBatch}

ScheduleMulti ==
    \E c \in Contents, accts \in AccountLists, t \in ScheduleTimes,
       sync \in BOOLEAN :
      /\ Len(posts) + Len(accts) <= MaxPosts
      /\ \E replies \in [1..Len(accts) -> PushReplies] :
        /\ Finish(schedule_multi(
                    c,
                    [k \in 1..Len(accts) |->
                        [connected_account_id |-> accts[k],
                         scheduled_for |-> t]],
                    DefaultTimezone, sync, replies))
        /\ batch_seq' = IF content_deleted[c] THEN batch_seq ELSE batch_seq + 1
        /\ UNCHANGED <<account_active, content_deleted>>

Reschedule ==
    \E pid \in PostIds, t \in Times, tz \in RescheduleTimezones,
       reply \in PlainReplies :
        /\ Finish(reschedule(pid, t, tz, reply))
        /\ UNCHANGED <<account_active, content_deleted, batch_seq>>

Cancel ==
    \E pid \in PostIds, reply \in PlainReplies :
        /\ Finish(cancel(pid, reply))
        /\ UNCHANGED <<account_active, content_deleted, batch_seq>>

PublishNow ==
    \E pid \in PostIds, reply \in PublishReplies :
        /\ Finish(publish_now(pid, reply))
        /\ UNCHANGED <<account_active, content_deleted, batch_seq>>

SyncPending ==
    \E replies \in [1..Len(get_pending_sync(posts)) -> PushReplies] :
        /\ Finish(sync_pending(replies))
        /\ UNCHANGED <<account_active, content_deleted, batch_seq>>

\* ContentLibraryService.delete (soft delete)
DeleteContent ==
    \E c \in Contents :
        /\ Step
        /\ ~content_deleted[c]
        /\ content_deleted' = [content_deleted EXCEPT ![c] = TRUE]
        /\ last' = [NoCall EXCEPT !.op = "delete_content"]
        /\ UNCHANGED <<posts, account_active, late_seq, batch_seq, inflight,
                       analytics>>

\* disconnect_account: ConnectedAccountRepository.deactivate
DisconnectAccount ==
    \E a \in Accounts :
        /\ Step
        /\ account_active[a]
        /\ account_active' = [account_active EXCEPT ![a] = FALSE]
        /\ last' = [NoCall EXCEPT !.op = "disconnect_account"]
        /\ UNCHANGED <<posts, content_deleted, late_seq, batch_seq, inflight,
                       analytics>>

\* ---- AnalyticsService ----------------------------------------------------------
\* the view counts the external service reports
Views == {1, 2}

\* what client.get_analytics answers
AnalyticsReplies ==
    {[kind |-> "ok", views |-> v] : v \in Views}
    \cup {[kind |-> "late_error", views |-> 0],
          [kind |-> "decode_error", views |-> 0]}

\* the working state of a running analytics call: the post_analytics table and
\* the value the call returns (TRUE for a dict, FALSE for None) are added
AnalyticsCtx(op, pid, args) ==
    Ctx(op, pid, args) @@ [analytics |-> analytics, result |-> FALSE]

\* PostAnalyticsRepository.get_by_scheduled_post: the rows of the post
get_by_scheduled_post(tbl, pid) ==
    {i \in DOMAIN tbl : tbl[i].scheduled_post_id = pid}

\* PostAnalyticsRepository.create
analytics_create(tbl, pid, platform, views) ==
    Append(tbl, [scheduled_post_id |-> pid, platform |-> platform,
                 views |-> views])

\* PostAnalyticsRepository.update
analytics_update(tbl, i, views) == [tbl EXCEPT ![i].views = views]

\* sync_post_analytics that inserts a row without looking for an existing one
sync_post_analytics_always_create(ctx, pid, reply) ==
    IF pid \notin DOMAIN ctx.posts THEN Raise(ctx, "ValueError")
    ELSE LET post == ctx.posts[pid] IN
         IF post.status # PUBLISHED THEN ctx
         ELSE IF post.late_post_id = None THEN ctx
         ELSE IF reply.kind = "late_error"
         THEN Call(ctx, "get_analytics", pid, post.late_post_id, FALSE,
                   "late_error")
         ELSE IF reply.kind = "decode_error"
         THEN Raise(Call(ctx, "get_analytics", pid, post.late_post_id, FALSE,
                         "decode_error"),
                    "ValueError")
         ELSE [Call(ctx, "get_analytics", pid, post.late_post_id, FALSE, "ok")
                  EXCEPT !.analytics = analytics_create(@, pid, post.platform,
                                                        reply.views),
                         !.result = TRUE]

sync_post_analytics(ctx, pid, reply) ==
    IF pid \notin DOMAIN ctx.posts THEN Raise(ctx, "ValueError")
    ELSE LET post == ctx.posts[pid] IN
         IF post.status # PUBLISHED THEN ctx
         ELSE IF post.late_post_id = None THEN ctx
         ELSE IF reply.kind = "late_error"
         THEN Call(ctx, "get_analytics", pid, post.late_post_id, FALSE,
                   "late_error")
         ELSE IF reply.kind = "decode_error"
         THEN Raise(Call(ctx, "get_analytics", pid, post.late_post_id, FALSE,
                         "decode_error"),
                    "ValueError")
         ELSE LET c1 == Call(ctx, "get_analytics", pid, post.late_post_id,
                             FALSE, "ok")
                  existing == get_by_scheduled_post(ctx.analytics, pid)
              IN  IF Cardinality(existing) > 1
                  THEN Raise(c1, "MultipleResultsFound")
                  ELSE IF existing # {}
                  THEN [c1 EXCEPT
                          !.analytics = analytics_update(
                                            @, CHOOSE i \in existing : TRUE,
                                            reply.views),
                          !.result = TRUE]
                  ELSE [c1 EXCEPT
                          !.analytics = analytics_create(@, pid, post.platform,
                                                         reply.views),
                          !.result = TRUE]

\* the post ids of the set S in the order of scheduled_for ascending
RECURSIVE OrderByScheduledFor(_, _)
OrderByScheduledFor(ps, S) ==
    IF S = {} THEN <<>>
    ELSE LET m == CHOOSE p \in S : \A q \in S :
                    \/ ps[p].scheduled_for < ps[q].scheduled_for
                    \/ ps[p].scheduled_for = ps[q].scheduled_for /\ p <= q
         IN  <<m>> \o OrderByScheduledFor(ps, S \ {m})

\* ScheduledPostRepository.get_multi(status=..., from_date=...)
get_multi(ps, status, from_date) ==
    OrderByScheduledFor(ps, {p \in DOMAIN ps :
                                /\ ps[p].status = status
                                /\ ps[p].scheduled_for >= from_date})

\* the loop of sync_all_published over the selected posts
RECURSIVE SyncEachPublished(_, _, _)
SyncEachPublished(ctx, i, replies) ==
    IF i > Len(ctx.selected) THEN ctx
    ELSE LET r == sync_post_analytics([ctx EXCEPT !.result = FALSE],
                                      ctx.selected[i], replies[i])
         IN  SyncEachPublished(
                IF r.raised # "none"
                THEN [r EXCEPT !.failed = @ + 1, !.raised = "none"]
                ELSE IF r.result THEN [r EXCEPT !.synced = @ + 1]
                ELSE r,
                i + 1, replies)

sync_all_published(now, days, replies) ==
    SyncEachPublished(
        [AnalyticsCtx("sync_all_published", None, <<now, days>>) EXCEPT
            !.selected = get_multi(posts, PUBLISHED, now - days)],
        1, replies)

\* the call's effect on the posts and on the post_analytics table becomes the
\* state; the table of the model holds fewer than MaxAnalytics rows
FinishAnalytics(ctx) ==
    /\ Len(analytics) < MaxAnalytics
    /\ posts' = ctx.posts
    /\ late_seq' = ctx.late_seq
    /\ analytics' = ctx.analytics
    /\ last' = Observe(ctx)
    /\ UNCHANGED <<account_active, content_deleted, batch_seq, steps,
                   inflight>>

\* POST /analytics/sync/post/{post_id}; args holds the number of rows the post
\* had before the call
SyncPostAnalytics ==
    \E pid \in PostIds, reply \in AnalyticsReplies :
        FinishAnalytics(
            sync_post_analytics(
                AnalyticsCtx("sync_post_analytics", pid,
                    <<Cardinality(get_by_scheduled_post(analytics, pid))>>),
                pid, reply))

\* the days a caller passes to POST /analytics/sync
SyncDays == {0, 1}

\* POST /analytics/sync, and the background job
SyncAllPublished ==
    \E now \in Times, days \in SyncDays :
        \E replies \in [1..Len(get_multi(posts, PUBLISHED, now - days))
                            -> AnalyticsReplies] :
            FinishAnalytics(sync_all_published(now, days, replies))

\* ---- calendar -----------------------------------------------------------------
\* a value of type list | None (and the query string that names a list)
NoneList == [is_none |-> TRUE, items |-> <<>>]
SomeList(xs) == [is_none |-> FALSE, items |-> xs]

\* Python truthiness of a list | None argument
TruthyList(l) == ~l.is_none /\ l.items # <<>>

\* get_calendar_data that does not leave out the CANCELLED posts
repo_get_calendar_data_with_cancelled(ps, from_date, to_date, account_ids) ==
    OrderByScheduledFor(ps,
        {p \in DOMAIN ps :
            /\ ps[p].scheduled_for >= from_date
            /\ ps[p].scheduled_for <= to_date
            /\ TruthyList(account_ids) =>
                  \E k \in DOMAIN account_ids.items :
                      ps[p].connected_account_id = account_ids.items[k]})

\* ScheduledPostRepository.get_calendar_data
repo_get_calendar_data(ps, from_date, to_date, account_ids) ==
    OrderByScheduledFor(ps,
        {p \in DOMAIN ps :
            /\ ps[p].scheduled_for >= from_date
            /\ ps[p].scheduled_for <= to_date
            /\ ps[p].status \notin {CANCELLED}
            /\ TruthyList(account_ids) =>
                  \E k \in DOMAIN account_ids.items :
                      ps[p].connected_account_id = account_ids.items[k]})

\* the account_ids query parameter: absent, or a comma-separated string, held
\* as the sequence of the ids it names (the empty sequence is the empty string)
AccountIdStrings ==
    {NoneList}
    \cup {SomeList(xs) : xs \in UNION {[1..n -> Accounts] : n \in 0..MaxBatch}}

\* GET /calendar: the parameter is split into a list when it is not empty
get_calendar_data(from_date, to_date, account_ids) ==
    LET account_id_list ==
            IF TruthyList(account_ids)
            THEN SomeList([k \in DOMAIN account_ids.items |->
                              account_ids.items[k]])
            ELSE NoneList
    IN  [Ctx("get_calendar_data", None, <<from_date, to_date, account_ids>>)
            EXCEPT !.selected = repo_get_calendar_data(
                                    posts, from_date, to_date,
                                    account_id_list)]

GetCalendarData ==
    \E from_date \in Times, to_date \in Times,
       account_ids \in AccountIdStrings :
        /\ last' = Observe(get_calendar_data(from_date, to_date, account_ids))
        /\ UNCHANGED <<posts, account_active, content_deleted, late_seq,
                       batch_seq, steps, inflight, analytics>>

\* ---- pushes interleaved at their awaits --------------------------------------
\* the requests (or background jobs) that may run at the same time, each with
\* a database session of its own
Workers == {1, 2}

NoReply == Reply("none", "", None, None, "")

\* a run of the interleaved model makes at most MaxConcSteps steps
ConcStep ==
    /\ steps < MaxConcSteps
    /\ steps' = steps + 1

\* a worker with no push in progress
Idle ==
    [kind |-> "idle", stage |-> "idle", queue |-> <<>>, loaded |-> <<>>,
     reply |-> NoReply, late_id |-> None]

\* session.flush() of a row this session loaded as `loaded` and changed to
\* `modified`: the UPDATE writes the changed columns onto the stored row
Flush(stored, loaded, modified) ==
    [f \in DOMAIN stored |->
        IF modified[f] # loaded[f] THEN modified[f] ELSE stored[f]]

\* the worker goes on with the rest of its queue, or is done
Advance(w) ==
    IF Len(inflight[w].queue) > 1
    THEN [inflight[w] EXCEPT !.stage = "selected", !.queue = Tail(@),
                             !.reply = NoReply, !.late_id = None]
    ELSE Idle

\* schedule_single(sync_immediately=True) up to its commit: the post is
\* stored in PENDING_SYNC and the push of it is about to start
BeginSchedule ==
    \E w \in Workers, c \in Contents, a \in Accounts, t \in ScheduleTimes :
        /\ ConcStep
        /\ inflight[w] = Idle
        /\ Len(posts) < MaxPosts
        /\ account_active[a] /\ ~content_deleted[c]
        /\ LET pid == Len(posts) + 1
               row == update_status(
                          create(c, a, PlatformOf(a), t, DefaultTimezone,
                                 SINGLE_PLATFORM, None),
                          PENDING_SYNC, None, NoneStr, None, None, NoneStr,
                          Now)
               c1 == Commit(Ctx("schedule_single", pid, <<>>), pid, row,
                            "none")
           IN  /\ posts' = c1.posts
               /\ last' = Observe(c1)
               /\ inflight' = [inflight EXCEPT ![w] =
                      [Idle EXCEPT !.kind = "schedule", !.stage = "selected",
                                   !.queue = <<pid>>, !.loaded = c1.posts]]
        /\ UNCHANGED <<account_active, content_deleted, late_seq, batch_seq,
                       analytics>>

\* sync_pending up to the return of get_pending_sync
BeginSweep ==
    \E w \in Workers :
        /\ ConcStep
        /\ inflight[w] = Idle
        /\ get_pending_sync(posts) # <<>>
        /\ inflight' = [inflight EXCEPT ![w] =
                [Idle EXCEPT !.kind = "sweep", !.stage = "selected",
                             !.queue = get_pending_sync(posts),
                             !.loaded = posts]]
        /\ last' = Observe([Ctx("sync_pending", None, <<>>) EXCEPT
                                !.selected = get_pending_sync(posts)])
        /\ UNCHANGED <<posts, account_active, content_deleted, late_seq,
                       batch_seq, analytics>>

\* _sync_to_late up to `await client.create_post(...)`: the request is sent
\* and the external service acts on it
PushSend ==
    \E w \in Workers, reply \in PushReplies :
        /\ ConcStep
        /\ inflight[w].stage = "selected"
        /\ LET pid == Head(inflight[w].queue)
               post == inflight[w].loaded[pid]
               ctx == Ctx("push_send", pid, <<>>)
           IN  IF content_deleted[post.content_library_item_id]
               THEN /\ inflight' = [inflight EXCEPT ![w] = Idle]
                    /\ last' = Observe(Raise(ctx, "ValueError"))
                    /\ UNCHANGED late_seq
               ELSE LET id == IF reply.kind = "ok" THEN late_seq + 1 ELSE None
                    IN  /\ late_seq' = IF reply.kind = "ok" THEN id
                                       ELSE late_seq
                        /\ inflight' = [inflight EXCEPT ![w] =
                               [@ EXCEPT !.stage = "sent", !.reply = reply,
                                         !.late_id = id]]
                        /\ last' = Observe(Call(ctx, "create", pid, id, FALSE,
                                                reply.kind))
        /\ UNCHANGED <<posts, account_active, content_deleted, batch_seq,
                       analytics>>

\* _sync_to_late after `await client.create_post(...)`: the reply is handled
\* and the row is written and committed
PushWrite ==
    \E w \in Workers :
        /\ ConcStep
        /\ inflight[w].stage = "sent"
        /\ LET pid == Head(inflight[w].queue)
               loaded == inflight[w].loaded[pid]
               reply == inflight[w].reply
               ctx == Ctx("push_write", pid, <<>>)
               Write(modified) ==
                   Commit(ctx, pid, Flush(posts[pid], loaded, modified),
                          posts[pid].status)
           IN  IF reply.kind = "ok" /\ reply.status \in LatePostStatus
               THEN LET c1 == Write(update_status(loaded, SCHEDULED,
                                        inflight[w].late_id, reply.status,
                                        None, None, NoneStr, Now))
                    IN  /\ posts' = c1.posts
                        /\ last' = Observe(c1)
                        /\ inflight' = [inflight EXCEPT ![w] = Advance(w)]
               ELSE IF reply.kind = "late_error"
               THEN LET c1 == Write(update_status(loaded, FAILED, None,
                                        NoneStr, None, None, reply.msg, Now))
                    IN  /\ posts' = c1.posts
                        /\ last' = Observe(Raise(c1, "LateApiError"))
                        /\ inflight' = [inflight EXCEPT ![w] =
                               IF inflight[w].kind = "sweep"
                               THEN Advance(w) ELSE Idle]
               ELSE /\ posts' = posts
                    /\ last' = Observe(Raise(ctx, "ValueError"))
                    /\ inflight' = [inflight EXCEPT ![w] = Idle]
        /\ UNCHANGED <<account_active, content_deleted, late_seq, batch_seq,
                       analytics>>

Init ==
    /\ posts = <<>>
    /\ account_active = [a \in Accounts |-> TRUE]
    /\ content_deleted = [c \in Contents |-> FALSE]
    /\ late_seq = 0
    /\ batch_seq = 0
    /\ last = NoCall
    /\ steps = 0
    /\ inflight = [w \in Workers |-> Idle]
    /\ analytics = <<>>

Next ==
    \/ ScheduleSingle
    \/ ScheduleMulti
    \/ Reschedule
    \/ Cancel
    \/ PublishNow
    \/ SyncPending
    \/ DeleteContent
    \/ DisconnectAccount

Spec == Init /\ [][Next]_vars

\* requests whose pushes interleave at their awaits, and cancel requests
ConcNext ==
    \/ BeginSchedule
    \/ BeginSweep
    \/ PushSend
    \/ PushWrite
    \/ Cancel

ConcSpec == Init /\ [][ConcNext]_vars

\* posts are scheduled, pushed, moved, published and cancelled while
\* analytics are pulled
AnalyticsNext ==
    \/ ScheduleSingle
    \/ PublishNow
    \/ Cancel
    \/ Reschedule
    \/ SyncPending
    \/ SyncPostAnalytics
    \/ SyncAllPublished

AnalyticsSpec == Init /\ [][AnalyticsNext]_vars

\* posts are scheduled, moved, cancelled and published while the calendar is read
CalendarNext ==
    \/ ScheduleSingle
    \/ Reschedule
    \/ Cancel
    \/ PublishNow
    \/ GetCalendarData

CalendarSpec == Init /\ [][CalendarNext]_vars

\* the replies of an external service that answers every request properly:
\* it accepts the create and reports a status LatePostStatus lists, or it
\* refuses with an error body
JobReplies ==
    {r \in PushReplies :
        \/ r.kind = "ok" /\ r.status \in LatePostStatus
        \/ r.kind = "late_error" /\ r.msg # ""}

\* sync_pending as the background job runs it, again and again; args holds
\* the parity of the run
SweepJob ==
    \E replies \in [1..Len(get_pending_sync(posts)) -> JobReplies] :
        \E ctx \in {sync_pending(replies)} :
        /\ posts' = ctx.posts
        /\ late_seq' = ctx.late_seq
        /\ last' = [Observe(ctx) EXCEPT
                        !.op = "sweep_job",
                        !.args = IF last.op = "sweep_job" /\ last.args = <<0>>
                                 THEN <<1>> ELSE <<0>>]
        /\ UNCHANGED <<account_active, content_deleted, batch_seq, steps,
                       inflight, analytics>>

\* posts are scheduled and content is deleted while the job keeps running
LiveNext ==
    \/ ScheduleSingle
    \/ DeleteContent
    \/ SweepJob

LiveSpec == Init /\ [][LiveNext]_vars /\ WF_vars(SweepJob)

\* ---- properties -------------------------------------------------------------
Terminal == {PUBLISHED, CANCELLED}

\* the edges of the transition table; "none" is the status before creation
TransitionTable ==
    {<<"none", PENDING_SYNC>>, <<"none", DRAFT>>,
     <<PENDING_SYNC, SCHEDULED>>, <<PENDING_SYNC, FAILED>>,
     <<SCHEDULED, PENDING_SYNC>>,
     <<PUBLISHING, PUBLISHED>>, <<PUBLISHING, FAILED>>}
    \cup {<<s, CANCELLED>> : s \in {SCHEDULED, DRAFT, PENDING_SYNC, FAILED}}
    \cup {<<s, PUBLISHING>> : s \in ScheduleStatus \ Terminal}

\* the committed status changes of post p in the observed call
Changes(obs, p) ==
    {i \in DOMAIN obs.trans :
        obs.trans[i].post = p /\ obs.trans[i].from # obs.trans[i].to}

\* the requests of one kind the observed call sent for post p
Requests(obs, kind, p) ==
    {i \in DOMAIN obs.calls :
        obs.calls[i].kind = kind /\ obs.calls[i].post = p}

\* C1: every committed change of a post's status, in every call, is an edge
\* of the transition table (create -> PENDING_SYNC | DRAFT; PENDING_SYNC ->
\* SCHEDULED | FAILED; SCHEDULED -> PENDING_SYNC; SCHEDULED | DRAFT |
\* PENDING_SYNC | FAILED -> CANCELLED; non-terminal -> PUBLISHING;
\* PUBLISHING -> PUBLISHED | FAILED).
C1_TransitionClosure ==
    \A i \in DOMAIN last.trans :
        last.trans[i].from # last.trans[i].to
            => <<last.trans[i].from, last.trans[i].to>> \in TransitionTable

\* C2: a reschedule, cancel or publish_now call on a post whose status is
\* PUBLISHED or CANCELLED leaves the status as it was.
C2_TerminalImmutable ==
    [][\A p \in DOMAIN posts :
          (/\ posts[p].status \in Terminal
           /\ last'.op \in {"reschedule", "cancel", "publish_now"}
           /\ last'.post = p)
              => posts'[p].status = posts[p].status]_vars

\* C3: late_post_id changes only from None to a value; once set, no call
\* replaces it by another value.
C3_RemoteIdAssignedOnce ==
    [][\A p \in DOMAIN posts :
          posts[p].late_post_id # None
              => posts'[p].late_post_id = posts[p].late_post_id]_vars

\* C4: a push (at schedule time or in a sweep) sends no create request for a
\* post that already has a late_post_id.
C4_NoCreateWhenRemoteIdSet ==
    [][\A i \in DOMAIN last'.calls :
          (/\ last'.calls[i].kind = "create"
           /\ ~last'.calls[i].publish_now
           /\ last'.calls[i].post \in DOMAIN posts)
              => posts[last'.calls[i].post].late_post_id = None]_vars

\* the retry_count of post p before the step (0 for a post the step creates)
RetryBefore(p) == IF p \in DOMAIN posts THEN posts[p].retry_count ELSE 0

\* C5: when the create request of a push fails, the post ends FAILED with
\* retry_count one higher, a non-empty error_message and failed_at set, the
\* change is committed, and the error reaches the caller of push (the call
\* raises it; the sweep counts it as failed).
C5_PushFailureRecorded ==
    [][\A i \in DOMAIN last'.calls :
          (/\ last'.calls[i].kind = "create"
           /\ ~last'.calls[i].publish_now
           /\ last'.calls[i].result # "ok")
              => LET p == last'.calls[i].post IN
                 /\ posts'[p].status = FAILED
                 /\ posts'[p].retry_count = RetryBefore(p) + 1
                 /\ posts'[p].error_message \notin {NoneStr, ""}
                 /\ posts'[p].failed_at # None
                 /\ \E k \in Changes(last', p) : last'.trans[k].to = FAILED
                 /\ IF last'.op = "sync_pending"
                    THEN last'.failed >= 1
                    ELSE last'.raised = "LateApiError"]_vars

\* the committed transitions of post p into FAILED in the observed call
FailedTransitions(obs, p) ==
    {i \in Changes(obs, p) : obs.trans[i].to = FAILED}

\* C6: in every call, the retry_count of every post grows by exactly the
\* number of its transitions into FAILED in that call, and by nothing else.
C6_RetryCountPerFailure ==
    [][\A p \in DOMAIN posts' :
          posts'[p].retry_count
              = RetryBefore(p) + Cardinality(FailedTransitions(last', p))]_vars

C6_Witness ==
    \E p \in DOMAIN posts :
        /\ posts[p].retry_count = 2
        /\ Cardinality(FailedTransitions(last, p)) = 1
        /\ Cardinality(Changes(last, p)) = 2

\* a reschedule call on a SCHEDULED post p that carries a late_post_id
RescheduleOfSynced(p) ==
    /\ last'.op = "reschedule"
    /\ last'.post = p
    /\ p \in DOMAIN posts
    /\ posts[p].status = SCHEDULED
    /\ posts[p].late_post_id # None

\* the call sent exactly one request, an update for the post's remote id
OnlyUpdateSent(obs, p, id) ==
    /\ Len(obs.calls) = 1
    /\ obs.calls[1].kind = "update"
    /\ obs.calls[1].post = p
    /\ obs.calls[1].late_id = id

\* C7 as stated: reschedule of a SCHEDULED post with a late_post_id leaves
\* it in PENDING_SYNC with the new scheduled_for, sends an update (no create)
\* for that remote id, and leaves late_post_id unchanged.
C7_RescheduleLeavesPendingSync ==
    [][\A p \in DOMAIN posts :
          RescheduleOfSynced(p)
              => /\ posts'[p].status = PENDING_SYNC
                 /\ posts'[p].scheduled_for = last'.args[1]
                 /\ OnlyUpdateSent(last', p, posts[p].late_post_id)
                 /\ posts'[p].late_post_id = posts[p].late_post_id]_vars

\* C7 amended: reschedule of a SCHEDULED post with a late_post_id sets the
\* new scheduled_for, sends an update (no create) for that remote id and
\* leaves late_post_id unchanged; when the update succeeds the post ends
\* SCHEDULED, when it fails the call raises and the post is left in
\* PENDING_SYNC.
C7_RescheduleUpdatesRemote ==
    [][\A p \in DOMAIN posts :
          RescheduleOfSynced(p)
              => /\ posts'[p].scheduled_for = last'.args[1]
                 /\ OnlyUpdateSent(last', p, posts[p].late_post_id)
                 /\ posts'[p].late_post_id = posts[p].late_post_id
                 /\ IF last'.calls[1].result = "ok"
                    THEN /\ posts'[p].status = SCHEDULED
                         /\ last'.raised = "none"
                    ELSE /\ posts'[p].status = PENDING_SYNC
                         /\ last'.raised # "none"]_vars

C7_Witness ==
    /\ last.op = "reschedule"
    /\ Len(last.trans) = 2
    /\ last.trans[1].from = SCHEDULED
    /\ last.trans[1].to = PENDING_SYNC
    /\ last.trans[2].to = SCHEDULED
    /\ OnlyUpdateSent(last, last.post, posts[last.post].late_post_id)
    /\ last.calls[1].result = "ok"
    /\ last.args[1] = 2
    /\ posts[last.post].scheduled_for = 2
    /\ posts[last.post].status = SCHEDULED

\* C8: a cancel call whose delete request fails still ends with the post
\* CANCELLED and raises nothing.
C8_CancelBestEffort ==
    \A i \in DOMAIN last.calls :
        (/\ last.op = "cancel"
         /\ last.calls[i].kind = "delete"
         /\ last.calls[i].result # "ok")
            => /\ posts[last.post].status = CANCELLED
               /\ last.raised = "none"

\* C9: a sweep returns counts with synced + failed equal to the number of
\* posts it selected: a push that fails stops neither the later pushes nor
\* the sweep.
C9_SweepIsolatesFailures ==
    last.op = "sync_pending"
        => /\ last.raised = "none"
           /\ last.synced + last.failed = Len(last.selected)

\* C10: a sweep selects exactly the posts in PENDING_SYNC, oldest first,
\* sends requests only for them, and leaves every other post (a FAILED post
\* included) as it was.
C10_SweepSelectsPendingOnly ==
    [][last'.op = "sync_pending"
          => /\ {last'.selected[i] : i \in DOMAIN last'.selected}
                    = {p \in DOMAIN posts : posts[p].status = PENDING_SYNC}
             /\ \A i, j \in DOMAIN last'.selected :
                    i < j => last'.selected[i] < last'.selected[j]
             /\ \A i \in DOMAIN last'.calls :
                    /\ last'.calls[i].kind = "create"
                    /\ posts[last'.calls[i].post].status = PENDING_SYNC
             /\ \A i, j \in DOMAIN last'.calls :
                    i < j => last'.calls[i].post < last'.calls[j].post
             /\ DOMAIN posts' = DOMAIN posts
             /\ \A p \in DOMAIN posts :
                    posts[p].status # PENDING_SYNC => posts'[p] = posts[p]]_vars

C10_Witness ==
    /\ last.op = "sync_pending"
    /\ Len(last.calls) >= 1
    /\ \E p \in DOMAIN posts :
        /\ posts[p].status = FAILED
        /\ \A i \in DOMAIN last.selected : last.selected[i] # p
        /\ Requests(last, "create", p) = {}

\* C11: reschedule of a PUBLISHED or CANCELLED post, and cancel of a PUBLISHED
\* post, raise an error, send no request and leave the row, every field of
\* it, as it was.
C11_TerminalRejected ==
    [][\A p \in DOMAIN posts :
          (/\ last'.post = p
           /\ \/ last'.op = "reschedule" /\ posts[p].status \in Terminal
              \/ last'.op = "cancel" /\ posts[p].status = PUBLISHED)
              => /\ last'.raised = "ValueError"
                 /\ last'.calls = <<>>
                 /\ last'.trans = <<>>
                 /\ posts' = posts]_vars

C11_Witness ==
    /\ last.op = "reschedule"
    /\ last.post \in DOMAIN posts
    /\ posts[last.post].status = PUBLISHED
    /\ last.raised = "ValueError"
    /\ last.args[1] # posts[last.post].scheduled_for

\* C12: cancel of a post that is already CANCELLED raises a conflict error;
\* it does not return the post as cancelled.
C12_CancelOfCancelledRejected ==
    [][\A p \in DOMAIN posts :
          (/\ last'.op = "cancel"
           /\ last'.post = p
           /\ posts[p].status = CANCELLED)
              => last'.raised = "ValueError"]_vars

\* C13: whenever the external service accepts the create request of a push,
\* whatever status it reports, the post ends SCHEDULED with the returned id
\* in late_post_id and a late_status recorded.
C13_AcceptedCreateIsStored ==
    [][\A i \in DOMAIN last'.calls :
          (/\ last'.calls[i].kind = "create"
           /\ ~last'.calls[i].publish_now
           /\ last'.calls[i].result = "ok")
              => LET p == last'.calls[i].post IN
                 /\ posts'[p].status = SCHEDULED
                 /\ posts'[p].late_post_id = last'.calls[i].late_id
                 /\ posts'[p].late_status \in ReportedStatus]_vars

\* C14: whenever a request sent for a post fails (the create of a push, the
\* update of a reschedule, the create of publish_now), the call ends with
\* the failure committed on the post: status FAILED, retry_count one higher,
\* failed_at set, an error_message recorded.
C14_EveryFailureRecorded ==
    [][\A i \in DOMAIN last'.calls :
          (/\ last'.calls[i].kind \in {"create", "update"}
           /\ last'.calls[i].result # "ok")
              => LET p == last'.calls[i].post IN
                 /\ posts'[p].status = FAILED
                 /\ posts'[p].retry_count = RetryBefore(p) + 1
                 /\ posts'[p].failed_at # None
                 /\ posts'[p].error_message # NoneStr
                 /\ \E k \in Changes(last', p) : last'.trans[k].to = FAILED]_vars

\* C15: a publish_now call that committed PUBLISHING ends, whether it
\* returns or raises, with the post PUBLISHED (and then it returns) or
\* FAILED; the post is never left in PUBLISHING.
C15_PublishNowCompletes ==
    (/\ last.op = "publish_now"
     /\ \E i \in DOMAIN last.trans : last.trans[i].to = PUBLISHING)
        => /\ posts[last.post].status \in {PUBLISHED, FAILED}
           /\ posts[last.post].status = PUBLISHED => last.raised = "none"
           /\ posts[last.post].status = FAILED => last.raised # "none"

\* C19: a reschedule call on a FAILED post leaves the post in PENDING_SYNC,
\* where the next sweep selects it.
C19_RescheduleRequeuesFailed ==
    [][\A p \in DOMAIN posts :
          (/\ last'.op = "reschedule"
           /\ last'.post = p
           /\ posts[p].status = FAILED)
              => /\ posts'[p].status = PENDING_SYNC
                 /\ p \in {get_pending_sync(posts')[i] :
                              i \in DOMAIN get_pending_sync(posts')}]_vars

\* C20: in every state, two posts that share a batch_id reference the same
\* content item and different connected accounts.
C20_BatchContentInvariant ==
    \A p, q \in DOMAIN posts :
        (/\ p # q
         /\ posts[p].batch_id # None
         /\ posts[p].batch_id = posts[q].batch_id)
            => /\ posts[p].content_library_item_id
                    = posts[q].content_library_item_id
               /\ posts[p].connected_account_id
                    # posts[q].connected_account_id

\* the pushes in flight whose create request has been accepted for post p
AcceptedInFlight(p) ==
    {w \in Workers :
        /\ inflight[w].stage = "sent"
        /\ Head(inflight[w].queue) = p
        /\ inflight[w].reply.kind = "ok"}

\* C16: under every interleaving of the pushes of a post, at most one create
\* request is issued for it: no two pushes in flight hold an accepted create
\* for the same post.
C16_OneCreatePerPost ==
    \A p \in DOMAIN posts : Cardinality(AcceptedInFlight(p)) <= 1

\* C17: a push in flight that writes its result does not change the status
\* of a post that a cancel has committed as CANCELLED since the push
\* selected it.
C17_PushKeepsCancelled ==
    [][\A p \in DOMAIN posts :
          (/\ last'.op = "push_write"
           /\ posts[p].status = CANCELLED)
              => posts'[p].status = CANCELLED]_vars

\* post p waits in PENDING_SYNC and its content item exists, so a push of it
\* can be performed
Pushable(p) ==
    /\ p \in DOMAIN posts
    /\ posts[p].status = PENDING_SYNC
    /\ ~content_deleted[posts[p].content_library_item_id]

\* C18: while the sweep keeps running, every post that waits in PENDING_SYNC
\* and can be pushed eventually leaves PENDING_SYNC, whatever the state of
\* the other posts is.
C18_PendingEventuallyPushed ==
    \A p \in PostIds : Pushable(p) ~> ~Pushable(p)

\* C21: a post has a batch_id exactly when its schedule_mode is multi; a post
\* created by schedule_single has mode single and no batch_id, a post created
\* by schedule_multi has mode multi and the id generated for the batch, and
\* no call changes the batch_id or the schedule_mode of an existing post.
C21_BatchIdIffMulti ==
    [][\A p \in DOMAIN posts' :
        /\ (posts'[p].batch_id # None)
              <=> (posts'[p].schedule_mode = MULTI_PLATFORM)
        /\ p \in DOMAIN posts =>
              /\ posts'[p].batch_id = posts[p].batch_id
              /\ posts'[p].schedule_mode = posts[p].schedule_mode
        /\ (p \notin DOMAIN posts /\ last'.op = "schedule_single") =>
              /\ posts'[p].schedule_mode = SINGLE_PLATFORM
              /\ posts'[p].batch_id = None
        /\ (p \notin DOMAIN posts /\ last'.op = "schedule_multi") =>
              /\ posts'[p].schedule_mode = MULTI_PLATFORM
              /\ posts'[p].batch_id = batch_seq']_vars

\* a single post and a batch post are stored and a later call has changed one
C21_Witness ==
    /\ \E p, q \in DOMAIN posts :
          /\ posts[p].schedule_mode = SINGLE_PLATFORM
          /\ posts[p].batch_id = None
          /\ posts[q].schedule_mode = MULTI_PLATFORM
          /\ posts[q].batch_id # None
    /\ last.op \in {"reschedule", "cancel", "publish_now", "sync_pending"}
    /\ last.trans # <<>>

\* the rows a call has added
Created == DOMAIN posts' \ DOMAIN posts

\* the account is missing or inactive when the call starts
BadAccount(a) == a \notin Accounts \/ ~account_active[a]

\* C22: schedule_single and schedule_multi create a post only for an account
\* that exists and is active and for content that exists; a call for a
\* missing or inactive account or for missing content raises the validation
\* error and creates no row for that account.
C22_CreateOnlyForValidInput ==
    [][/\ last'.op = "schedule_single" =>
            LET c == last'.args[1]
                a == last'.args[2]
            IN  /\ \A p \in Created :
                      /\ posts'[p].connected_account_id = a
                      /\ posts'[p].content_library_item_id = c
                      /\ ~BadAccount(a) /\ ~content_deleted[c]
                /\ Cardinality(Created) <= 1
                /\ (BadAccount(a) \/ content_deleted[c]) =>
                      /\ last'.raised = "ValueError"
                      /\ posts' = posts
                      /\ last'.calls = <<>>
       /\ last'.op = "schedule_multi" =>
            LET c == last'.args[1]
                accts == last'.args[2]
            IN  /\ \A p \in Created :
                      /\ \E k \in DOMAIN accts :
                            posts'[p].connected_account_id = accts[k]
                      /\ posts'[p].content_library_item_id = c
                      /\ ~BadAccount(posts'[p].connected_account_id)
                      /\ ~content_deleted[c]
                /\ content_deleted[c] =>
                      /\ last'.raised = "ValueError"
                      /\ posts' = posts
                /\ \A k \in DOMAIN accts : BadAccount(accts[k]) =>
                      /\ last'.raised = "ValueError"
                      /\ last'.calls = <<>>
                      /\ \A p \in Created :
                            posts'[p].connected_account_id # accts[k]]_vars

\* a batch whose first account is active and whose second account has been
\* disconnected was rejected for existing content
C22_Witness ==
    /\ last.raised = "ValueError"
    /\ last.calls = <<>>
    /\ last.op = "schedule_multi"
    /\ Len(last.args[2]) = 2
    /\ last.args[2][1] \in Accounts /\ account_active[last.args[2][1]]
    /\ last.args[2][2] \in Accounts /\ ~account_active[last.args[2][2]]
    /\ ~content_deleted[last.args[1]]
    /\ posts # <<>>

\* C23: a push or a publish of a post whose account is not active when the
\* push runs sends no request to the external service: every create request
\* a call sends is for a post whose account is active.
C23_InactiveAccountNotPushed ==
    [][\A i \in DOMAIN last'.calls :
          last'.calls[i].kind = "create"
              => account_active[
                    posts'[last'.calls[i].post].connected_account_id]]_vars

\* the call that has just run was refused at one of the code's checks of the
\* account, the content or the terminal status of the post
RefusedLocally ==
    \/ /\ last'.op = "schedule_single"
       /\ BadAccount(last'.args[2]) \/ content_deleted[last'.args[1]]
    \/ /\ last'.op = "schedule_multi"
       /\ \/ content_deleted[last'.args[1]]
          \/ \E k \in DOMAIN last'.args[2] : BadAccount(last'.args[2][k])
    \/ /\ last'.op = "reschedule"
       /\ last'.post \in DOMAIN posts
       /\ posts[last'.post].status \in {PUBLISHED, CANCELLED}
    \/ /\ last'.op = "cancel"
       /\ last'.post \in DOMAIN posts
       /\ posts[last'.post].status = PUBLISHED
    \/ /\ last'.op = "publish_now"
       /\ last'.post \in DOMAIN posts
       /\ \/ posts[last'.post].status = PUBLISHED
          \/ content_deleted[posts[last'.post].content_library_item_id]

\* C24: a schedule, reschedule, cancel or publish_now call that ends in a
\* validation error (missing or inactive account, missing content) or in a
\* conflict error (the post is in a terminal status) ends with that error
\* and has sent no request to the external service.
C24_LocalErrorsSendNothing ==
    [][RefusedLocally =>
          /\ last'.raised = "ValueError"
          /\ last'.calls = <<>>]_vars

\* cancel of a PUBLISHED post that the external service knows was refused
C24_Witness ==
    /\ last.op = "cancel"
    /\ last.raised = "ValueError"
    /\ last.calls = <<>>
    /\ last.post \in DOMAIN posts
    /\ posts[last.post].status = PUBLISHED
    /\ posts[last.post].late_post_id # None

\* the first account of the list that fails validation, or 0
RECURSIVE FirstBad(_, _)
FirstBad(accts, k) ==
    IF k > Len(accts) THEN 0
    ELSE IF BadAccount(accts[k]) THEN k
    ELSE FirstBad(accts, k + 1)

LocalTimeChange(row, args) ==
    [row EXCEPT !.scheduled_for = args[1],
                !.timezone = IF Truthy(args[2]) THEN args[2] ELSE @]

C27_ScheduleSingleHappyPath ==
    [][(/\ last'.op = "schedule_single"
        /\ ~BadAccount(last'.args[2])
        /\ ~content_deleted[last'.args[1]])
          => LET p == Len(posts) + 1 IN
             /\ DOMAIN posts' = DOMAIN posts \cup {p}
             /\ \A q \in DOMAIN posts : posts'[q] = posts[q]
             /\ last'.post = p
             /\ posts'[p].content_library_item_id = last'.args[1]
             /\ posts'[p].connected_account_id = last'.args[2]
             /\ last'.trans[1].post = p
             /\ last'.trans[1].from = "none"
             /\ IF last'.calls = <<>>
                THEN /\ last'.trans[1].to = DRAFT
                     /\ posts'[p].status = DRAFT
                     /\ posts'[p].late_post_id = None
                     /\ last'.raised = "none"
                ELSE /\ last'.trans[1].to = PENDING_SYNC
                     /\ Len(last'.calls) = 1
                     /\ last'.calls[1].kind = "create"
                     /\ last'.calls[1].post = p
                     /\ last'.raised = "none" =>
                           /\ posts'[p].status = SCHEDULED
                           /\ last'.calls[1].result = "ok"
                           /\ posts'[p].late_post_id = last'.calls[1].late_id
                           /\ posts'[p].late_post_id = late_seq'
                           /\ posts'[p].late_post_id # None]_vars

\* two posts were scheduled with sync on create and each holds the id that
\* the external service returned for it
C27_Witness ==
    /\ last.op = "schedule_single"
    /\ last.raised = "none"
    /\ Len(posts) = 2
    /\ posts[1].status = SCHEDULED /\ posts[1].late_post_id = 1
    /\ posts[2].status = SCHEDULED /\ posts[2].late_post_id = 2
    /\ Len(last.calls) = 1
    /\ last.calls[1].late_id = 2

\* the call that has just run was made on a post in a terminal status and
\* was refused for it
ConflictCall ==
    /\ last'.op \in {"reschedule", "cancel", "publish_now"}
    /\ last'.post \in DOMAIN posts
    /\ posts[last'.post].status \in Terminal
    /\ last'.raised # "none"
    /\ last'.calls = <<>>

\* C28: an operation refused because the post is in a terminal status is
\* answered with an error kind that differs from the kind answered for a
\* validation error (a missing account) and from the kind answered for an
\* unknown post id, and those two differ from each other.
C28_ErrorKindsDistinct ==
    [][ConflictCall =>
          LET conflict == status_code(last'.raised)
              validation ==
                  status_code(schedule_single(1, UnknownAccount, 1,
                                  DefaultTimezone, FALSE,
                                  Reply("ok", "scheduled", None, None, ""),
                                  Now).raised)
              not_found ==
                  status_code(reschedule(Len(posts) + 1, 1, NoneStr,
                                         "ok").raised)
          IN  /\ conflict # validation
              /\ conflict # not_found
              /\ validation # not_found]_vars

\* C29: the analytics calls (sync_post_analytics, sync_all_published) leave
\* every post as it was, whether the pull succeeds or fails; they ask the
\* external service for metrics only for a post that is PUBLISHED and has a
\* late_post_id; and the post_analytics table never holds more than one row
\* for a post.
C29_AnalyticsLeavesPosts ==
    [][/\ last'.op \in {"sync_post_analytics", "sync_all_published"} =>
            /\ posts' = posts
            /\ \A i \in DOMAIN last'.calls :
                  LET p == last'.calls[i].post IN
                  /\ last'.calls[i].kind = "get_analytics"
                  /\ p \in DOMAIN posts
                  /\ posts[p].status = PUBLISHED
                  /\ posts[p].late_post_id # None
                  /\ last'.calls[i].late_id = posts[p].late_post_id
       /\ \A p \in PostIds :
            Cardinality(get_by_scheduled_post(analytics', p)) <= 1]_vars

\* the metrics of a post that already had its row were pulled again: the row
\* holds the new view count and is still the only row of the post
C29_Witness ==
    /\ last.op = "sync_post_analytics"
    /\ last.args = <<1>>
    /\ Len(last.calls) = 1
    /\ last.calls[1].result = "ok"
    /\ posts[last.post].status = PUBLISHED
    /\ get_by_scheduled_post(analytics, last.post) = {1}
    /\ analytics[1].views = 2
    /\ \E q \in DOMAIN posts : posts[q].status \notin {PUBLISHED}

\* the posts a calendar query for the range and the accounts has to return
InRange(from_date, to_date, account_ids) ==
    {p \in DOMAIN posts :
        /\ from_date <= posts[p].scheduled_for
        /\ posts[p].scheduled_for <= to_date
        /\ posts[p].status # CANCELLED
        /\ TruthyList(account_ids) =>
              \E k \in DOMAIN account_ids.items :
                  posts[p].connected_account_id = account_ids.items[k]}

\* C30: get_calendar_data with the bounds from and to returns exactly the
\* posts with from <= scheduled_for <= to whose status is not CANCELLED and,
\* when account ids are given, whose account is one of them, each once and
\* in the order of scheduled_for ascending; posts in every other status are
\* returned.
C30_CalendarRangeQuery ==
    last.op = "get_calendar_data" =>
        LET sel == last.selected
            want == InRange(last.args[1], last.args[2], last.args[3])
        IN  /\ {sel[i] : i \in DOMAIN sel} = want
            /\ Len(sel) = Cardinality(want)
            /\ \A i, j \in DOMAIN sel :
                  i < j => posts[sel[i]].scheduled_for
                              <= posts[sel[j]].scheduled_for
            /\ \A p \in DOMAIN posts :
                  (/\ posts[p].status \in ScheduleStatus \ {CANCELLED}
                   /\ last.args[1] <= posts[p].scheduled_for
                   /\ posts[p].scheduled_for <= last.args[2]
                   /\ ~TruthyList(last.args[3]))
                      => \E i \in DOMAIN sel : sel[i] = p

\* a query for one account returned a FAILED post before a DRAFT post that
\* was created earlier and is scheduled later
C30_Witness ==
    /\ last.op = "get_calendar_data"
    /\ last.args = <<1, 2, SomeList(<<1>>)>>
    /\ last.selected = <<2, 1>>
    /\ posts[1].status = DRAFT /\ posts[1].scheduled_for = 2
    /\ posts[2].status = FAILED /\ posts[2].scheduled_for = 1

\* C31: schedule_multi for existing content and N accounts that all exist
\* and are active creates exactly N posts, in the order of the list, each
\* with the batch id generated by the call, the given content and the
\* platform of its account; when the call returns, it returns those posts in
\* that order.
C31_BatchInListOrder ==
    [][(/\ last'.op = "schedule_multi"
        /\ ~content_deleted[last'.args[1]]
        /\ \A k \in DOMAIN last'.args[2] : ~BadAccount(last'.args[2][k]))
          => LET accts == last'.args[2]
                 N == Len(accts)
             IN  /\ Len(posts') = Len(posts) + N
                 /\ \A q \in DOMAIN posts :
                       posts'[q].batch_id # batch_seq'
                 /\ batch_seq' # None
                 /\ \A k \in 1..N :
                       LET row == posts'[Len(posts) + k] IN
                       /\ row.connected_account_id = accts[k]
                       /\ row.platform = PlatformOf(accts[k])
                       /\ row.content_library_item_id = last'.args[1]
                       /\ row.batch_id = batch_seq'
                 /\ last'.raised = "none" =>
                       last'.selected = [k \in 1..N |-> Len(posts) + k]
                 /\ last'.calls = <<>> => last'.raised = "none"]_vars

\* a batch for the accounts 2 and 1, in that order, was created and
\* returned
C31_Witness ==
    /\ last.op = "schedule_multi"
    /\ last.raised = "none"
    /\ last.args[2] = <<2, 1>>
    /\ last.selected = <<1, 2>>
    /\ posts[1].platform = "youtube" /\ posts[2].platform = "tiktok"
    /\ posts[1].connected_account_id = 2
    /\ posts[2].connected_account_id = 1
    /\ posts[1].batch_id = batch_seq /\ posts[2].batch_id = batch_seq

\* the first request of the call that the external service refused, or 0
RECURSIVE FirstRefused(_, _)
FirstRefused(calls, k) ==
    IF k > Len(calls) THEN 0
    ELSE IF calls[k].result = "late_error" THEN k
    ELSE FirstRefused(calls, k + 1)

C33_RemoteIdMatchesStatus ==
    \A p \in DOMAIN posts :
        /\ posts[p].status \in {SCHEDULED, PUBLISHED}
              => posts[p].late_post_id # None
        /\ posts[p].status = DRAFT => posts[p].late_post_id = None

\* a pushed post is SCHEDULED and a post created as a draft was published:
\* each holds an id of its own
C33_Witness ==
    \E p, q \in DOMAIN posts :
        /\ posts[p].status = SCHEDULED
        /\ posts[q].status = PUBLISHED
        /\ posts[p].late_post_id # None
        /\ posts[q].late_post_id # None
        /\ posts[p].late_post_id # posts[q].late_post_id
        /\ last.op = "publish_now"
        /\ last.post = q
        /\ last.trans[1].from = DRAFT

\* C34: a post becomes PUBLISHED only in a publish_now call for it that the
\* external service accepted; a push, a sweep, a reschedule, a cancel and an
\* analytics pull never set PUBLISHED, and a SCHEDULED post stays SCHEDULED
\* in every call other than a reschedule, cancel or publish_now of it.
C34_PublishedOnlyByPublishNow ==
    [][\A p \in DOMAIN posts' :
        /\ (/\ posts'[p].status = PUBLISHED
            /\ p \in DOMAIN posts => posts[p].status # PUBLISHED)
              => /\ last'.op = "publish_now"
                 /\ last'.post = p
                 /\ last'.raised = "none"
                 /\ Len(last'.calls) = 1
                 /\ last'.calls[1].kind = "create"
                 /\ last'.calls[1].publish_now
                 /\ last'.calls[1].result = "ok"
        /\ (/\ p \in DOMAIN posts
            /\ posts[p].status = SCHEDULED
            /\ ~(/\ last'.op \in {"reschedule", "cancel", "publish_now"}
                 /\ last'.post = p))
              => posts'[p] = posts[p]]_vars

\* a pushed post is still SCHEDULED after an analytics pull was asked for it
C34_Witness ==
    /\ last.op = "sync_post_analytics"
    /\ last.post \in DOMAIN posts
    /\ last.calls = <<>>
    /\ posts[last.post].status = SCHEDULED
    /\ posts[last.post].late_post_id # None
    /\ posts[last.post].late_status # NoneStr

\* C35: a post stored in DRAFT is never pushed.  No call sends a scheduling
\* request (a create without publish_now) for a post that is in DRAFT or
\* that the call itself stored in DRAFT; the sweep does not select a DRAFT
\* post; only cancel and publish_now of the post change the status of a
\* DRAFT post, so reschedule leaves it in DRAFT; a scheduling request is
\* sent only for a post that is in PENDING_SYNC, and an existing post
\* enters PENDING_SYNC only from SCHEDULED.
C35_DraftNeverPushed ==
    [][/\ \A p \in DOMAIN posts' :
            (\/ p \in DOMAIN posts /\ posts[p].status = DRAFT
             \/ p \notin DOMAIN posts /\ posts'[p].status = DRAFT)
              => \A i \in DOMAIN last'.calls :
                    last'.calls[i].post = p
                        => /\ last'.calls[i].kind = "create"
                           /\ last'.calls[i].publish_now
                           /\ last'.op = "publish_now"
       /\ \A p \in DOMAIN posts :
            posts[p].status = DRAFT
              => /\ last'.op = "sync_pending"
                    => \A i \in DOMAIN last'.selected :
                            last'.selected[i] # p
                 /\ posts'[p].status # DRAFT
                    => /\ last'.op \in {"cancel", "publish_now"}
                       /\ last'.post = p
                 /\ (last'.op = "reschedule" /\ last'.post = p)
                    => /\ posts'[p].status = DRAFT
                       /\ posts'[p].late_post_id = None
                       /\ last'.calls = <<>>
       /\ \A i \in DOMAIN last'.calls :
            (last'.calls[i].kind = "create" /\ ~last'.calls[i].publish_now)
              => LET p == last'.calls[i].post
                 IN  \/ p \in DOMAIN posts /\ posts[p].status = PENDING_SYNC
                     \/ /\ p \notin DOMAIN posts
                        /\ \E k \in DOMAIN last'.trans :
                              /\ last'.trans[k].post = p
                              /\ last'.trans[k].from = "none"
                              /\ last'.trans[k].to = PENDING_SYNC
       /\ \A p \in DOMAIN posts :
            (posts'[p].status = PENDING_SYNC /\ posts[p].status # PENDING_SYNC)
              => posts[p].status = SCHEDULED]_vars

\* a sweep ran over a post that was stored in DRAFT and then rescheduled: the
\* post is still in DRAFT at its new time, was not selected and has no
\* remote id
C35_Witness ==
    /\ last.op = "sync_pending"
    /\ last.raised = "none"
    /\ \E p \in DOMAIN posts :
        /\ posts[p].status = DRAFT
        /\ posts[p].scheduled_for = 2
        /\ posts[p].late_post_id = None
        /\ \A i \in DOMAIN last.selected : last.selected[i] # p
        /\ \A i \in DOMAIN last.calls : last.calls[i].post # p
====
